---- MODULE Spec2Model ----
(***************************************************************************)
(* The per-connection session pipeline of the verlo-websocket relay.       *)
(*                                                                         *)
(* The repository holds four iterations of the same server:                *)
(*   "v1"       src/server.js, lines 1-220                                 *)
(*   "v2"       src/server.js, lines 222-461                               *)
(*   "fallback" src/unnamed/part_000 (default languages, inner try/catch)  *)
(*   "chunked"  src/unnamed/part_001 (validation, detached chunked TTS)    *)
(* A deployment runs one of them; `variant` says which.                    *)
(*                                                                         *)
(* Every message handler is an async function registered on an event       *)
(* emitter: the emitter does not wait for the promise it returns, so a     *)
(* handler runs synchronously up to its first await and every await is a   *)
(* point where other handlers and continuations may run.  One action of    *)
(* the model is one such synchronous run.                                  *)
(***************************************************************************)
EXTENDS Integers, Sequences, FiniteSets, TLC

VARIABLES variant, session, outbox, connOpen, tasks, redis, pendingSets,
          files, clock, nIn, nFaults, script,
          \* the arguments of a call of one of the key and expiry helpers on
          \* its own, and what the call returned
          arg, ret

vars == <<variant, session, outbox, connOpen, tasks, redis, pendingSets,
          files, clock, nIn, nFaults, script, arg, ret>>

----------------------------------------------------------------------------
(* Bounds of the model *)

\* inbound frames over the whole run, all connections together
MaxFrames == 3
\* `stop` frames (turn pipelines) over the whole run
MaxTasks == 2
\* the largest value Date.now() takes (it starts at 0)
MaxClock == 1
\* adapter calls that fail or come back empty over the whole run
MaxFaults == 1

----------------------------------------------------------------------------
(* Values *)

Variants == {"v1", "v2", "fallback", "chunked"}
Conns == {1, 2}

\* undefined / null of a closure variable or of a frame field
NULL == "null"
\* `text` of a transcription response that carries none (undefined)
NoText == <<"undefined">>

\* texts are sequences of one-character strings
Hej == <<"h", "e", "j">>
HejBang == <<"H", "e", "j", "!">>
Tack == <<"t", "a", "c", "k">>
Hi == <<"h", "i">>
\* a word of twenty letters: two of them do not fit one synthesis fragment
Word(ch) == [i \in 1..20 |-> ch]
TwoWords == Word("a") \o <<" ">> \o Word("b")
ThreeWords == TwoWords \o <<" ">> \o Word("c")

\* The providers are deterministic in what they answer when they answer
\* (temperature 0): the transcript is a function of the audio sent, the
\* translation a function of the text and the language pair.  Whether a
\* call succeeds is not.  An empty audio file has no transcript.
TranscriptOf(audio) ==
  CASE audio = <<>> -> <<>>
    [] Head(audio) = "byte_x" -> Hej
    [] Head(audio) = "byte_y" -> HejBang
    [] OTHER -> Tack

TranslationOf(text, from, to) ==
  CASE text = <<>> -> <<>>
    [] text = HejBang -> ThreeWords
    [] OTHER -> TwoWords

\* the fields of the `start` frames the clients send
Starts == { [sessionId |-> "s1", fromLang |-> "sv", toLang |-> "en"],
            [sessionId |-> "s2", fromLang |-> "en", toLang |-> "sv"] }

\* base64 payloads of `chunk` frames, as token sequences: "P" stands for a
\* data-URL prefix `data:audio/<w>;base64,`, the other tokens for payload
AudioFragments == { <<"x">>, <<"P", "y">> }

----------------------------------------------------------------------------
(* Pure functions *)

Min(a, b) == IF a <= b THEN a ELSE b

\* A text is the sequence of its UTF-16 code units, each written as a
\* string.  "Sigma", "sigma" and "finalsigma" are U+03A3, U+03C3 and
\* U+03C2; "D840" followed by "DC00" is the surrogate pair of the letter
\* U+20000, which has no case.
UpperCase == {"H", "A", "Sigma"}
Letters == {"a", "e", "h", "i", "j", "t", "c", "k", "sigma", "finalsigma"}
Digits == {"1"}
HighSurrogate == "D840"
LowSurrogate == "DC00"

\* the letters that have a case
Cased == UpperCase \cup Letters

\* Final_Sigma of the case conversion: the capital sigma comes after a
\* cased letter and no cased letter comes after it.  No code unit of the
\* texts used here is case-ignorable, so the runs of case-ignorable
\* characters the condition skips over are empty.
FinalSigma(text, i) ==
  /\ i > 1 /\ text[i - 1] \in Cased
  /\ ~(i < Len(text) /\ text[i + 1] \in Cased)

\* text.toLowerCase()
toLowerCase(text) ==
  [i \in 1..Len(text) |->
     CASE text[i] = "H" -> "h"
       [] text[i] = "A" -> "a"
       [] text[i] = "Sigma" ->
            IF FinalSigma(text, i) THEN "finalsigma" ELSE "sigma"
       [] OTHER -> text[i]]

\* The code unit at i belongs to a code point of \p{L} or \p{N}.  The
\* pattern has the u flag: a high surrogate and the low surrogate right
\* after it are one code point (here a letter), a surrogate on its own is
\* a code point that is neither letter nor digit.
LetterOrDigitAt(text, i) ==
  \/ text[i] \in UpperCase \cup Letters \cup Digits
  \/ /\ text[i] = HighSurrogate
     /\ i < Len(text) /\ text[i + 1] = LowSurrogate
  \/ /\ text[i] = LowSurrogate
     /\ i > 1 /\ text[i - 1] = HighSurrogate

\* length of the normalized text kept in a cache key, in code units
KeyMaxLen == 120

\* text.toLowerCase().replace(/[^\p{L}\p{N}]+/gu, "").slice(0, 120)
NormalizeText(text) ==
  LET lower == toLowerCase(text)
      marked == [i \in 1..Len(lower) |->
                   [unit |-> lower[i], keep |-> LetterOrDigitAt(lower, i)]]
      kept == SelectSeq(marked, LAMBDA m : m.keep)
      replaced == [i \in 1..Len(kept) |-> kept[i].unit]
  IN SubSeq(replaced, 1, Min(KeyMaxLen, Len(replaced)))

\* `t:${from}:${to}:${normalized}`
CacheKey(from, to, text) == <<"t", from, to, NormalizeText(text)>>

\* text.split(' '): the pieces between single spaces, empty pieces kept
SplitOnSpace(text) ==
  LET spaces == {i \in 1..Len(text) : text[i] = " "}
      \* position of the k-th space; 0 and Len(text) + 1 close the ends
      cut(k) == IF k = 0 THEN 0
                ELSE IF k > Cardinality(spaces) THEN Len(text) + 1
                ELSE CHOOSE i \in spaces :
                       Cardinality({j \in spaces : j < i}) = k - 1
  IN [k \in 1..(Cardinality(spaces) + 1) |->
        SubSeq(text, cut(k - 1) + 1, cut(k) - 1)]

ShortTtl == 86400
LongTtl == 3600
TtlWordLimit == 5

\* wordCount = text.split(" ").length; ttl = wordCount <= 5 ? 86400 : 3600
CacheTtl(text) ==
  IF Len(SplitOnSpace(text)) <= TtlWordLimit THEN ShortTtl ELSE LongTtl

\* a chunker that forgets the space it puts between two words when it
\* measures a fragment
ChunksUncountedSpace(text, maxChunkLength) ==
  LET words == SplitOnSpace(text)
      F[i \in 0..Len(words)] ==
        IF i = 0 THEN [chunks |-> <<>>, currentChunk |-> <<>>]
        ELSE LET st == F[i - 1]
                 word == words[i]
             IN IF Len(st.currentChunk) + Len(word) <= maxChunkLength
                THEN [st EXCEPT !.currentChunk =
                        IF st.currentChunk # <<>>
                        THEN st.currentChunk \o <<" ">> \o word
                        ELSE word]
                ELSE [chunks |-> IF st.currentChunk # <<>>
                                 THEN Append(st.chunks, st.currentChunk)
                                 ELSE st.chunks,
                      currentChunk |-> word]
      last == F[Len(words)]
  IN IF last.currentChunk # <<>> THEN Append(last.chunks, last.currentChunk)
     ELSE last.chunks

\* a chunker that returns without the fragment it is still filling
ChunksWithoutLast(text, maxChunkLength) ==
  LET words == SplitOnSpace(text)
      F[i \in 0..Len(words)] ==
        IF i = 0 THEN [chunks |-> <<>>, currentChunk |-> <<>>]
        ELSE LET st == F[i - 1]
                 word == words[i]
             IN IF Len(st.currentChunk) + Len(word) + 1 <= maxChunkLength
                THEN [st EXCEPT !.currentChunk =
                        IF st.currentChunk # <<>>
                        THEN st.currentChunk \o <<" ">> \o word
                        ELSE word]
                ELSE [chunks |-> IF st.currentChunk # <<>>
                                 THEN Append(st.chunks, st.currentChunk)
                                 ELSE st.chunks,
                      currentChunk |-> word]
      last == F[Len(words)]
  IN last.chunks

\* splitTextIntoChunks(text, maxChunkLength)
splitTextIntoChunks(text, maxChunkLength) ==
  LET words == SplitOnSpace(text)
      F[i \in 0..Len(words)] ==
        IF i = 0 THEN [chunks |-> <<>>, currentChunk |-> <<>>]
        ELSE LET st == F[i - 1]
                 word == words[i]
             IN IF Len(st.currentChunk) + Len(word) + 1 <= maxChunkLength
                THEN [st EXCEPT !.currentChunk =
                        IF st.currentChunk # <<>>
                        THEN st.currentChunk \o <<" ">> \o word
                        ELSE word]
                ELSE [chunks |-> IF st.currentChunk # <<>>
                                 THEN Append(st.chunks, st.currentChunk)
                                 ELSE st.chunks,
                      currentChunk |-> word]
      last == F[Len(words)]
  IN IF last.currentChunk # <<>> THEN Append(last.chunks, last.currentChunk)
     ELSE last.chunks

\* the maxChunkLength the chunked variant passes
TtsChunkLen == 30

\* voice: toLang === 'en' ? 'alloy' : 'nova'
VoiceFor(toLang) == IF toLang = "en" THEN "alloy" ELSE "nova"

\* audioChunks.join('')
JoinChunks(chunks) ==
  LET F[i \in 0..Len(chunks)] ==
        IF i = 0 THEN <<>> ELSE F[i - 1] \o chunks[i]
  IN F[Len(chunks)]

\* combinedAudio.replace(/^data:audio\/\w+;base64,/, ""): only a prefix at
\* the very start of the joined string is removed
StripDataUrlPrefix(s) == IF s # <<>> /\ Head(s) = "P" THEN Tail(s) ELSE s

\* the string handed to Buffer.from(_, "base64") on `stop`
AssembleAudio(v, chunks) ==
  IF v = "fallback" THEN JoinChunks(chunks)
  ELSE StripDataUrlPrefix(JoinChunks(chunks))

\* Buffer.from(s, "base64"): payload tokens decode to their bytes; the
\* characters of a data-URL prefix left in the string decode to junk bytes
Base64Decode(s) ==
  [i \in 1..Len(s) |-> IF s[i] = "P" THEN "junk" ELSE "byte_" \o s[i]]

----------------------------------------------------------------------------
(* Frames, sessions, tasks *)

\* an outbound frame; `turn` is the pipeline that sent it (0: no pipeline),
\* a field a frame does not carry is NULL / NoText / -1
BlankFrame ==
  [type |-> NULL, turn |-> 0, sessionId |-> NULL, text |-> NoText,
   original |-> NoText, translated |-> NoText, cached |-> FALSE,
   fromLang |-> NULL, toLang |-> NULL, url |-> NoText,
   chunkIndex |-> -1, totalChunks |-> -1, error |-> NULL]

ConnectedFrame(sid) ==
  [BlankFrame EXCEPT !.type = "connected", !.sessionId = sid]
PongFrame == [BlankFrame EXCEPT !.type = "pong"]
ErrorFrame(t, msg) ==
  [BlankFrame EXCEPT !.type = "error", !.turn = t, !.error = msg]
PartialFrame(t, text) ==
  [BlankFrame EXCEPT !.type = "partial", !.turn = t, !.text = text]
EndFrame(t, sid) ==
  [BlankFrame EXCEPT !.type = "end", !.turn = t, !.sessionId = sid]
AudioFrame(t, input) ==
  [BlankFrame EXCEPT !.type = "audio", !.turn = t, !.url = input]
\* an audio_chunk frame that counts the frames sent so far as its total
ChunkFrameCountsSoFar(t, input, i, n) ==
  [BlankFrame EXCEPT !.type = "audio_chunk", !.turn = t, !.url = input,
                     !.chunkIndex = i, !.totalChunks = i + 1]
AudioChunkFrame(t, input, i, n) ==
  [BlankFrame EXCEPT !.type = "audio_chunk", !.turn = t, !.url = input,
                     !.chunkIndex = i, !.totalChunks = n]
AudioCompleteFrame(t, n) ==
  [BlankFrame EXCEPT !.type = "audio_complete", !.turn = t, !.totalChunks = n]

\* v1 and chunked put fromLang/toLang in `final`; v2 and fallback do not
FinalFrame(v, t, original, translated, cached, from, to) ==
  [BlankFrame EXCEPT !.type = "final", !.turn = t, !.original = original,
                     !.translated = translated, !.cached = cached,
                     !.fromLang = IF v \in {"v1", "chunked"} THEN from ELSE NULL,
                     !.toLang = IF v \in {"v1", "chunked"} THEN to ELSE NULL]

\* let audioChunks = [], sessionId, fromLang, toLang; `since` records the
\* turns that had finished when the last `start` was received
InitSession ==
  [audioChunks |-> <<>>, sessionId |-> NULL, fromLang |-> NULL, toLang |-> NULL,
   since |-> {}]

\* the frame sent when a connection opens (v2 sends none)
Greeting(v) == IF v = "v2" THEN <<>> ELSE <<ConnectedFrame(NULL)>>

EmptyMap == [k \in {} |-> NULL]
MapPut(m, k, val) == (k :> val) @@ m
MapDel(m, k) == [x \in DOMAIN m \ {k} |-> m[x]]

\* JSON.stringify of a cache value { t: text }, and JSON.parse: a string
\* parses to the value it encodes; anything else is first turned into the
\* string "[object Object]", which is a SyntaxError
JsonStringify(value) == <<"string", value>>
SyntaxError == <<"SyntaxError", [t |-> NoText]>>
JsonParse(x) == IF x[1] = "string" THEN <<"object", x[2]>> ELSE SyntaxError

\* what redis.get resolves to for a stored string: the string itself, or
\* the object it encodes when the client has deserialized it already
RedisReplies == {"string", "object"}
RedisGet(as, stored) == IF as = "object" THEN JsonParse(stored) ELSE stored

\* the entry the store holds when the server starts: (en, sv, "hej") -> "hi"
SeedCache ==
  MapPut(EmptyMap, CacheKey("en", "sv", Hej),
         [json |-> JsonStringify([t |-> Hi]), ttl |-> ShortTtl])

TaskIds == 1..Len(tasks)
Live(t) == tasks[t].pc # "done"
TasksOf(c) == {t \in TaskIds : tasks[t].conn = c}

\* The clients.  With script = Free a client may send any frame at any
\* time, within the bounds; otherwise script is the frames the clients
\* have yet to send, in order, each with its connection in front.  A frame
\* is <<"start", sessionId>>, <<"chunk">> \o audio, <<"stop">>, <<"ping">>,
\* <<"other">> (a type the server does not know) or <<"bad", kind>> (a
\* payload that is no frame).
Free == << <<0, "*">> >>


InitServer ==
  /\ variant \in Variants
  /\ session = [c \in Conns |-> InitSession]
  /\ outbox = [c \in Conns |-> Greeting(variant)]
  /\ connOpen = [c \in Conns |-> TRUE]
  /\ tasks = <<>>
  /\ redis = SeedCache
  /\ pendingSets = {}
  /\ files = EmptyMap
  /\ clock = 0
  /\ nIn = 0

\* no helper is called on its own while the server runs
NoCall == [op |-> "none"]

Init == InitServer /\ script = Free /\ nFaults = 0 /\ arg = NoCall /\ ret = NoCall

\* The frames of two clients in the order the server receives them.  One
\* client runs a whole turn start -> chunk -> stop and then sends a frame of
\* unknown type, while the other sends a payload that is not JSON, a ping
\* and a bare `stop`
ScriptTurnAndStop ==
  << <<2, "bad", "notJson">>,
     <<1, "start", "s1">>, <<1, "chunk", "x">>, <<2, "ping">>,
     <<1, "stop">>, <<1, "other">>, <<2, "stop">> >>

\* One client runs a turn and then a second turn start -> chunk -> stop
\* while another client runs a turn of its own
ScriptTwoTurns ==
  << <<1, "chunk", "x">>, <<1, "stop">>,
     <<1, "start", "s1">>, <<1, "chunk", "P", "y">>, <<2, "chunk", "x">>,
     <<1, "stop">>, <<2, "stop">> >>

\* One client runs a turn without `start` and goes on with chunk -> stop,
\* again without `start`
ScriptNoRestart ==
  << <<1, "chunk", "x">>, <<1, "stop">>, <<1, "chunk", "P", "y">>,
     <<1, "stop">> >>

Scripts == {ScriptTurnAndStop, ScriptTwoTurns, ScriptNoRestart}

\* the providers may fail during the short script; the long one runs
\* against providers that answer
InitScript ==
  /\ InitServer
  /\ script \in Scripts
  /\ nFaults = IF script = ScriptTwoTurns THEN MaxFaults ELSE 0
  /\ arg = NoCall /\ ret = NoCall

Send(c, frames) == outbox' = [outbox EXCEPT ![c] = @ \o frames]
Received(c) ==
  /\ nIn' = nIn + 1
  /\ script' = IF script = Free THEN script ELSE Tail(script)
  /\ UNCHANGED nFaults
\* an adapter call settles: well (good) or as one more fault
Settles(good) ==
  IF good THEN UNCHANGED nFaults
  ELSE nFaults < MaxFaults /\ nFaults' = nFaults + 1
CanReceive(c, frame) ==
  /\ connOpen[c]
  /\ IF script = Free THEN nIn < MaxFrames
     ELSE /\ script # <<>> /\ Head(script) = <<c>> \o frame
          \* a scripted client begins a turn once its last one is over
          /\ frame[1] = "start" => \A t \in TasksOf(c) : ~Live(t)

----------------------------------------------------------------------------
(* Inbound frames that need no await *)

\* a `start` that stores the three fields and keeps the buffered audio
StartKeepsBuffer(c, data) ==
  /\ CanReceive(c, <<"start", data.sessionId>>)
  /\ session' = [session EXCEPT ![c] =
                   [@ EXCEPT !.sessionId = data.sessionId,
                             !.fromLang = data.fromLang, !.toLang = data.toLang,
                             !.since = {t \in TaskIds : ~Live(t)}]]
  /\ Send(c, <<ConnectedFrame(data.sessionId)>>)
  /\ Received(c)
  /\ UNCHANGED <<arg, ret, variant, connOpen, tasks, redis, pendingSets, files, clock>>

\* case 'start'
HandleStart(c, data) ==
  /\ CanReceive(c, <<"start", data.sessionId>>)
  /\ session' = [session EXCEPT ![c] =
                   [audioChunks |-> <<>>, sessionId |-> data.sessionId,
                    fromLang |-> data.fromLang, toLang |-> data.toLang,
                    since |-> {t \in TaskIds : ~Live(t)}]]
  /\ Send(c, <<ConnectedFrame(data.sessionId)>>)
  /\ Received(c)
  /\ UNCHANGED <<arg, ret, variant, connOpen, tasks, redis, pendingSets, files, clock>>

\* case 'chunk'
HandleChunk(c, audio) ==
  /\ CanReceive(c, <<"chunk">> \o audio)
  /\ session' = [session EXCEPT ![c].audioChunks = Append(@, audio)]
  /\ Received(c)
  /\ UNCHANGED <<arg, ret, variant, outbox, connOpen, tasks, redis, pendingSets, files, clock>>

\* what `ping` is answered with: server.js 222-461 has no case 'ping', the
\* frame ends in its default branch
PingReply(v) == IF v = "v2" THEN <<>> ELSE <<PongFrame>>

\* case 'ping'
HandlePing(c) ==
  /\ CanReceive(c, <<"ping">>)
  /\ Send(c, PingReply(variant))
  /\ Received(c)
  /\ UNCHANGED <<arg, ret, variant, session, connOpen, tasks, redis, pendingSets, files, clock>>

\* a frame that answers an unknown type with an error
UnknownTypeIsError(c) ==
  /\ CanReceive(c, <<"other">>)
  /\ Send(c, <<ErrorFrame(0, "Unknown message type")>>)
  /\ Received(c)
  /\ UNCHANGED <<arg, ret, variant, session, connOpen, tasks, redis, pendingSets, files, clock>>

\* a well-formed frame whose type no case matches: the switch does nothing
\* (server.js 222-461 logs it in its default branch)
HandleOther(c) ==
  /\ CanReceive(c, <<"other">>)
  /\ Received(c)
  /\ UNCHANGED <<arg, ret, variant, session, outbox, connOpen, tasks, redis, pendingSets,
                 files, clock>>

\* payloads that are no frame: "notJson" does not parse, "null" parses to
\* null, "noType" parses to a value without a `type` (a number, {})
Malformed == {"notJson", "null", "noType"}

\* what the handler's catch sends for a malformed payload: JSON.parse
\* throws a SyntaxError, null.type a TypeError; a value without `type`
\* reaches the switch and matches no case
MalformedReply(kind) ==
  CASE kind = "notJson" -> <<ErrorFrame(0, "SyntaxError")>>
    [] kind = "null" -> <<ErrorFrame(0, "TypeError")>>
    [] OTHER -> <<>>

\* const data = JSON.parse(msg.toString()); switch (data.type) on a payload
\* that is no frame
HandleMalformed(c, kind) ==
  /\ CanReceive(c, <<"bad", kind>>)
  /\ Send(c, MalformedReply(kind))
  /\ Received(c)
  /\ UNCHANGED <<arg, ret, variant, session, connOpen, tasks, redis, pendingSets, files, clock>>

----------------------------------------------------------------------------
(* The turn pipeline: case 'stop' *)

\* the locals of one run of case 'stop'.  pc is the await the run is
\* suspended at; n* count the adapter calls issued, r* are their outcomes;
\* sid0/from0/to0/since0 are the session values when the `stop` was received;
\* readOk/held/heldT say what the store did and held at the lookup, setKey
\* is the key of the turn's cache write; before/landed record which turns
\* had finished when this one began and whose cache writes had been
\* applied when this one looked the cache up
NewTask(c, s, buffer, pc, now) ==
  [conn |-> c, pc |-> pc, buffer |-> buffer,
   audio |-> IF pc = "whisper" THEN buffer ELSE <<"unread">>,
   tmpPath |-> now, lang |-> s.fromLang,
   sid0 |-> s.sessionId, from0 |-> s.fromLang, to0 |-> s.toLang,
   since0 |-> s.since,
   nChunks |-> Len(s.audioChunks), chunks |-> s.audioChunks,
   originalText |-> NoText, key |-> <<>>, translated |-> NoText,
   readOk |-> FALSE, held |-> FALSE, heldT |-> NoText, setKey |-> <<>>,
   gptFrom |-> NULL, gptTo |-> NULL, voice |-> NULL,
   frags |-> <<>>, fragDone |-> {}, doneOrder |-> <<>>,
   nWhisper |-> 1, nGet |-> 0, nGpt |-> 0, nSet |-> 0, nTts |-> 0,
   rWhisper |-> "none", rGet |-> "none", rGpt |-> "none", rSet |-> "none",
   rTts |-> "none", unlinkFailed |-> FALSE,
   before |-> {t \in TaskIds : tasks[t].pc = "done"}, landed |-> {}]

\* a `stop` that takes the session as it is
NoDefaults(v, s) == s

\* the fallback variant substitutes defaults for a missing language
StopSession(v, s) ==
  IF v = "fallback" /\ (s.fromLang = NULL \/ s.toLang = NULL)
  THEN [s EXCEPT !.fromLang = IF @ = NULL THEN "sv" ELSE @,
                 !.toLang = IF @ = NULL THEN "en" ELSE @]
  ELSE s

\* a `stop` that empties the buffer once it has assembled the audio
StopClearsBuffer(c, d) ==
  /\ CanReceive(c, <<"stop">>)
  /\ script = Free => Len(tasks) < MaxTasks
  /\ clock + d <= MaxClock
  /\ clock' = clock + d
  /\ LET s == StopSession(variant, session[c])
         buffer == Base64Decode(AssembleAudio(variant, s.audioChunks))
     IN /\ session' = [session EXCEPT ![c] = [s EXCEPT !.audioChunks = <<>>]]
        /\ files' = MapPut(files, clock + d, buffer)
        /\ tasks' = Append(tasks,
             NewTask(c, s, buffer, IF variant = "fallback" THEN "open" ELSE "whisper",
                     clock + d))
  /\ Received(c)
  /\ UNCHANGED <<arg, ret, variant, outbox, connOpen, redis, pendingSets>>

\* case 'stop' up to its first await: assemble and decode the audio, write
\* it to /tmp/audio_<Date.now()>, issue the transcription request.  The
\* clock is read here only: d is the time gone by since the last reading
HandleStop(c, d) ==
  /\ CanReceive(c, <<"stop">>)
  /\ script = Free => Len(tasks) < MaxTasks
  /\ clock + d <= MaxClock
  /\ clock' = clock + d
  /\ LET s == StopSession(variant, session[c])
         buffer == Base64Decode(AssembleAudio(variant, s.audioChunks))
     IN /\ session' = [session EXCEPT ![c] = s]
        /\ files' = MapPut(files, clock + d, buffer)
        /\ tasks' = Append(tasks,
             NewTask(c, s, buffer, IF variant = "fallback" THEN "open" ELSE "whisper",
                     clock + d))
  /\ Received(c)
  /\ UNCHANGED <<arg, ret, variant, outbox, connOpen, redis, pendingSets>>

\* the message a catch block reports: the fallback variant's inner catch
\* prefixes it
CatchMessage(v, msg) ==
  IF v = "fallback" THEN "Transcription failed: " \o msg ELSE msg

\* if (fs.existsSync(tmpPath)) fs.unlinkSync(tmpPath), fallback's inner catch
CatchFiles(v, k, f) ==
  IF v = "fallback" /\ k.tmpPath \in DOMAIN f THEN MapDel(f, k.tmpPath) ELSE f

\* an exception thrown inside the pipeline of task t
Throw(t, msg, f) ==
  /\ Send(tasks[t].conn, <<ErrorFrame(t, CatchMessage(variant, msg))>>)
  /\ files' = CatchFiles(variant, tasks[t], f)

\* fallback: fs.createReadStream(tmpPath) opens the file after the handler
\* has yielded and reads what the path holds then
ReadStreamOpen(t) ==
  /\ t \in TaskIds
  /\ tasks[t].pc = "open"
  /\ IF tasks[t].tmpPath \in DOMAIN files
     THEN /\ tasks' = [tasks EXCEPT ![t].pc = "whisper",
                                    ![t].audio = files[tasks[t].tmpPath]]
          /\ UNCHANGED <<outbox, files>>
     ELSE /\ tasks' = [tasks EXCEPT ![t].pc = "done", ![t].rWhisper = "fail"]
          /\ Throw(t, "ENOENT", files)
  /\ UNCHANGED <<arg, ret, variant, session, connOpen, redis, pendingSets, clock, nIn, nFaults, script>>

\* does the variant check the transcript before `partial`?
ValidatesTranscript(v) == v \in {"fallback", "chunked"}

\* the transcript is there: unlinkSync(tmpPath), validation, `partial`,
\* then getCachedTranslation up to its redis.get
AfterTranscription(t, text, r) ==
  LET k == tasks[t]
      s == session[k.conn]
      got == [k EXCEPT !.rWhisper = r, !.originalText = text]
  IN IF k.tmpPath \notin DOMAIN files
     THEN \* unlinkSync throws ENOENT
          /\ tasks' = [tasks EXCEPT ![t] = [got EXCEPT !.pc = "done",
                                                      !.unlinkFailed = TRUE]]
          /\ Throw(t, "ENOENT", files)
     ELSE IF ValidatesTranscript(variant) /\ text \in {NoText, <<>>}
     THEN /\ tasks' = [tasks EXCEPT ![t] = [got EXCEPT !.pc = "done"]]
          /\ Send(k.conn, <<ErrorFrame(t, "No text transcribed from audio")>>)
          /\ files' = MapDel(files, k.tmpPath)
     ELSE IF text = NoText
     THEN \* text.toLowerCase() of undefined throws in getCachedTranslation
          /\ tasks' = [tasks EXCEPT ![t] = [got EXCEPT !.pc = "done"]]
          /\ Send(k.conn, <<PartialFrame(t, text), ErrorFrame(t, "TypeError")>>)
          /\ files' = MapDel(files, k.tmpPath)
     ELSE /\ tasks' = [tasks EXCEPT ![t] =
                         [got EXCEPT !.pc = "cacheGet", !.nGet = 1,
                                     !.key = CacheKey(s.fromLang, s.toLang, text)]]
          /\ Send(k.conn, <<PartialFrame(t, text)>>)
          /\ files' = MapDel(files, k.tmpPath)

\* a pipeline that sends the transcription request again when it failed
WhisperRetries(t, kind) ==
  /\ t \in TaskIds
  /\ tasks[t].pc = "whisper"
  /\ kind = "reject" /\ tasks[t].nWhisper < 2
  /\ Settles(FALSE)
  /\ tasks' = [tasks EXCEPT ![t].nWhisper = @ + 1]
  /\ UNCHANGED <<outbox, files>>
  /\ UNCHANGED <<arg, ret, variant, session, connOpen, redis, pendingSets, clock, nIn, script>>

\* the transcription request settles: kind "reject" is a request that
\* fails, "nonOK" an HTTP error response, "empty" a response whose text is
\* "", "ok" a response carrying the transcript of the audio sent
WhisperReturn(t, kind) ==
  /\ t \in TaskIds
  /\ tasks[t].pc = "whisper"
  /\ kind = "ok" => tasks[t].audio # <<>>
  /\ Settles(kind = "ok")
  /\ CASE kind = "ok" -> AfterTranscription(t, TranscriptOf(tasks[t].audio), "ok")
       [] kind = "empty" -> AfterTranscription(t, <<>>, "ok")
       [] kind = "nonOK" /\ variant \in {"v1", "chunked"} ->
            \* the body is parsed whatever the status: text is undefined
            AfterTranscription(t, NoText, "fail")
       [] OTHER ->
            \* fetch rejects, v2 throws on !ok, the SDK throws
            /\ tasks' = [tasks EXCEPT ![t].pc = "done", ![t].rWhisper = "fail"]
            /\ Throw(t, IF kind = "nonOK" THEN "Whisper error" ELSE "fetch failed",
                     files)
  /\ UNCHANGED <<arg, ret, variant, session, connOpen, redis, pendingSets, clock, nIn, script>>

\* only the chunked variant re-encodes a reply that is not a string
ReencodesObject(v) == v = "chunked"

\* getCachedTranslation around redis.get: a read that throws and a reply
\* that does not parse are caught and give null; the result is
\* <<found, cached.t>>
getCachedTranslation(v, ok, as, key, store) ==
  IF ~ok \/ key \notin DOMAIN store THEN <<FALSE, NoText>>
  ELSE LET cached == RedisGet(as, store[key].json)
           cachedString == IF ReencodesObject(v) /\ cached[1] # "string"
                           THEN JsonStringify(cached[2]) ELSE cached
           parsed == JsonParse(cachedString)
       IN IF parsed = SyntaxError THEN <<FALSE, NoText>>
          ELSE <<TRUE, parsed[2].t>>

\* the synthesis request for the whole translated text is issued
IssueTts(k, toLang, translated) ==
  [k EXCEPT !.pc = "tts", !.nTts = 1, !.voice = VoiceFor(toLang),
            !.translated = translated]

\* redis.get settles (ok: the store answered, with a reply of the kind
\* `as`; ~ok: the read threw): on a
\* hit `final{cached: true}` and the synthesis request, on a miss the
\* translation request
CacheGetReturn(t, ok, as) ==
  /\ t \in TaskIds
  /\ tasks[t].pc = "cacheGet"
  /\ Settles(ok)
  /\ LET k == tasks[t]
         s == session[k.conn]
         cached == getCachedTranslation(variant, ok, as, k.key, redis)
         seen == [k EXCEPT !.landed = {u \in TaskIds : tasks[u].rSet = "ok"},
                           !.readOk = ok, !.held = k.key \in DOMAIN redis,
                           !.heldT = IF k.key \in DOMAIN redis
                                     THEN JsonParse(redis[k.key].json)[2].t
                                     ELSE NoText,
                           !.rGet = IF cached[1] THEN "hit" ELSE "miss"]
     IN IF cached[1]
        THEN /\ Send(k.conn, <<FinalFrame(variant, t, k.originalText, cached[2],
                                          TRUE, s.fromLang, s.toLang)>>)
             /\ tasks' = [tasks EXCEPT ![t] = IssueTts(seen, s.toLang, cached[2])]
        ELSE /\ tasks' = [tasks EXCEPT ![t] =
                            [seen EXCEPT !.pc = "gpt", !.nGpt = 1,
                                         !.gptFrom = s.fromLang, !.gptTo = s.toLang]]
             /\ UNCHANGED outbox
  /\ UNCHANGED <<arg, ret, variant, session, connOpen, redis, pendingSets, files, clock, nIn, script>>

\* is the cache write awaited before synthesis starts?
AwaitsCacheWrite(v) == v # "chunked"

\* setCachedTranslation returns early on an empty text in fallback and chunked
WritesCache(v, text) == ~(v \in {"fallback", "chunked"} /\ text = <<>>)

\* results taken in the order the synthesis calls completed
CompletionOrder(frags, doneOrder) == doneOrder

\* the frames of the chunked path once every fragment is synthesized:
\* Promise.all gives the results in the order of the fragments
ChunkResults(frags, doneOrder) == [i \in 1..Len(frags) |-> i]

ChunkFrames(t, frags, doneOrder, sid) ==
  LET res == ChunkResults(frags, doneOrder)
      n == Len(res)
  IN [i \in 1..n |-> AudioChunkFrame(t, frags[res[i]], i - 1, n)]
     \o <<AudioCompleteFrame(t, n), EndFrame(t, sid)>>

\* the translation request settles: `final{cached: false}`, the cache write,
\* and in the chunked variant the detached synthesis of every fragment
GptReturn(t, ok) ==
  /\ t \in TaskIds
  /\ tasks[t].pc = "gpt"
  /\ Settles(ok)
  /\ LET k == tasks[t]
         s == session[k.conn]
         text == TranslationOf(k.originalText, k.gptFrom, k.gptTo)
         final == FinalFrame(variant, t, k.originalText, text, FALSE,
                             s.fromLang, s.toLang)
         write == [turn |-> t, key |-> CacheKey(s.fromLang, s.toLang, k.originalText),
                   value |-> text, ttl |-> CacheTtl(k.originalText)]
         writes == WritesCache(variant, k.originalText)
         got == [k EXCEPT !.rGpt = "ok", !.translated = text,
                          !.nSet = IF writes THEN 1 ELSE 0,
                          !.setKey = IF writes THEN write.key ELSE <<>>]
         frags == splitTextIntoChunks(text, TtsChunkLen)
     IN IF ~ok
        THEN /\ tasks' = [tasks EXCEPT ![t].pc = "done", ![t].rGpt = "fail"]
             /\ Throw(t, "translation failed", files)
             /\ UNCHANGED pendingSets
        ELSE /\ pendingSets' = IF writes THEN pendingSets \cup {write} ELSE pendingSets
             /\ UNCHANGED files
             /\ IF AwaitsCacheWrite(variant)
                THEN /\ Send(k.conn, <<final>>)
                     /\ tasks' = [tasks EXCEPT ![t] =
                                    IF writes THEN [got EXCEPT !.pc = "cacheSet"]
                                    ELSE IssueTts(got, s.toLang, text)]
                ELSE IF frags = <<>>
                THEN /\ Send(k.conn, <<final>> \o ChunkFrames(t, frags, <<>>, s.sessionId))
                     /\ tasks' = [tasks EXCEPT ![t] = [got EXCEPT !.pc = "done"]]
                ELSE /\ Send(k.conn, <<final>>)
                     /\ tasks' = [tasks EXCEPT ![t] =
                                    [got EXCEPT !.pc = "ttsChunks", !.frags = frags,
                                                !.nTts = Len(frags),
                                                !.voice = VoiceFor(s.toLang)]]
  /\ UNCHANGED <<arg, ret, variant, session, connOpen, redis, clock, nIn, script>>

\* a cache write whose failure is not caught
Uncaught(v) == TRUE

\* does a failing redis.setex reach the pipeline as an exception?  No:
\* setCachedTranslation catches it
SetFailureThrows(v) == FALSE

\* redis.setex(key, ttl, JSON.stringify(value)) on the store
StoreEntry(store, w) ==
  MapPut(store, w.key, [json |-> JsonStringify([t |-> w.value]), ttl |-> w.ttl])

\* redis.setex settles (ok: stored; ~ok: the write threw); a pipeline that
\* awaits it goes on to the synthesis request
SetexReturn(w, ok) ==
  /\ w \in pendingSets
  /\ Settles(ok)
  /\ pendingSets' = pendingSets \ {w}
  /\ redis' = IF ok THEN StoreEntry(redis, w) ELSE redis
  /\ LET t == w.turn
         k == [tasks[t] EXCEPT !.rSet = IF ok THEN "ok" ELSE "fail"]
         s == session[k.conn]
     IN IF k.pc # "cacheSet"
        THEN /\ tasks' = [tasks EXCEPT ![t] = k]
             /\ UNCHANGED <<outbox, files>>
        ELSE IF ~ok /\ SetFailureThrows(variant)
        THEN /\ tasks' = [tasks EXCEPT ![t] = [k EXCEPT !.pc = "done"]]
             /\ Throw(t, "Redis set failed", files)
        ELSE /\ tasks' = [tasks EXCEPT ![t] = IssueTts(k, s.toLang, k.translated)]
             /\ UNCHANGED <<outbox, files>>
  /\ UNCHANGED <<arg, ret, variant, session, connOpen, clock, nIn, script>>

\* a single-shot turn that closes before it sends its audio
EndBeforeAudio(t, translated, sid) ==
  <<EndFrame(t, sid), AudioFrame(t, translated)>>

\* the frames that close a single-shot turn
SingleShotFrames(t, translated, sid) ==
  <<AudioFrame(t, translated), EndFrame(t, sid)>>

\* the single-shot synthesis request settles
TtsReturn(t, ok) ==
  /\ t \in TaskIds
  /\ tasks[t].pc = "tts"
  /\ Settles(ok)
  /\ LET k == tasks[t]
         s == session[k.conn]
     IN IF ok
        THEN /\ tasks' = [tasks EXCEPT ![t].pc = "done", ![t].rTts = "ok"]
             /\ Send(k.conn, SingleShotFrames(t, k.translated, s.sessionId))
             /\ UNCHANGED files
        ELSE /\ tasks' = [tasks EXCEPT ![t].pc = "done", ![t].rTts = "fail"]
             /\ Throw(t, "synthesis failed", files)
  /\ UNCHANGED <<arg, ret, variant, session, connOpen, redis, pendingSets, clock, nIn, script>>

\* a detached synthesis task that reports the failure and closes the turn
ErrorThenEnd(t, sid) ==
  <<ErrorFrame(t, "synthesis failed"), EndFrame(t, sid)>>

\* the frames the detached synthesis task sends when Promise.all rejects
ChunkFailureFrames(t, sid) == <<EndFrame(t, sid)>>

\* a synthesis task that sends the audio of a fragment as soon as it is
\* there and closes the turn after the last one
FragmentStreams(t, i, ok) ==
  /\ t \in TaskIds
  /\ tasks[t].pc = "ttsChunks"
  /\ Settles(ok)
  /\ i \in (1..Len(tasks[t].frags)) \ tasks[t].fragDone
  /\ LET k == tasks[t]
         s == session[k.conn]
         done == k.fragDone \cup {i}
         order == Append(k.doneOrder, i)
     IN IF ~ok
        THEN /\ tasks' = [tasks EXCEPT ![t].pc = "done", ![t].rTts = "fail"]
             /\ Send(k.conn, ChunkFailureFrames(t, s.sessionId))
        ELSE IF done = 1..Len(k.frags)
        THEN /\ tasks' = [tasks EXCEPT ![t].pc = "done", ![t].rTts = "ok",
                                       ![t].fragDone = done, ![t].doneOrder = order]
             /\ Send(k.conn, <<AudioChunkFrame(t, k.frags[i], i - 1, Len(k.frags)),
                               AudioCompleteFrame(t, Len(k.frags)),
                               EndFrame(t, s.sessionId)>>)
        ELSE /\ tasks' = [tasks EXCEPT ![t].fragDone = done, ![t].doneOrder = order]
             /\ Send(k.conn, <<AudioChunkFrame(t, k.frags[i], i - 1, Len(k.frags))>>)
  /\ UNCHANGED <<arg, ret, variant, session, connOpen, redis, pendingSets, files, clock, nIn, script>>

\* chunked: the synthesis request of fragment i settles.  Promise.all
\* resolves when the last one has and rejects with the first that fails
FragmentReturn(t, i, ok) ==
  /\ t \in TaskIds
  /\ tasks[t].pc = "ttsChunks"
  /\ Settles(ok)
  /\ i \in (1..Len(tasks[t].frags)) \ tasks[t].fragDone
  /\ LET k == tasks[t]
         s == session[k.conn]
         done == k.fragDone \cup {i}
         order == Append(k.doneOrder, i)
     IN IF ~ok
        THEN /\ tasks' = [tasks EXCEPT ![t].pc = "done", ![t].rTts = "fail"]
             /\ Send(k.conn, ChunkFailureFrames(t, s.sessionId))
        ELSE IF done = 1..Len(k.frags)
        THEN /\ tasks' = [tasks EXCEPT ![t].pc = "done", ![t].rTts = "ok",
                                       ![t].fragDone = done, ![t].doneOrder = order]
             /\ Send(k.conn, ChunkFrames(t, k.frags, order, s.sessionId))
        ELSE /\ tasks' = [tasks EXCEPT ![t].fragDone = done, ![t].doneOrder = order]
             /\ UNCHANGED outbox
  /\ UNCHANGED <<arg, ret, variant, session, connOpen, redis, pendingSets, files, clock, nIn, script>>

----------------------------------------------------------------------------
(* The system *)

Next ==
  \/ \E c \in Conns, data \in Starts : HandleStart(c, data)
  \/ \E c \in Conns, audio \in AudioFragments : HandleChunk(c, audio)
  \/ \E c \in Conns, d \in {0, 1} : HandleStop(c, d)
  \/ \E c \in Conns : HandlePing(c)
  \/ \E c \in Conns : HandleOther(c)
  \/ \E c \in Conns, kind \in Malformed : HandleMalformed(c, kind)
  \/ \E t \in TaskIds : ReadStreamOpen(t)
  \/ \E t \in TaskIds, kind \in {"ok", "empty", "nonOK", "reject"} : WhisperReturn(t, kind)
  \/ \E t \in TaskIds, ok \in BOOLEAN, as \in RedisReplies : CacheGetReturn(t, ok, as)
  \/ \E t \in TaskIds, ok \in BOOLEAN : GptReturn(t, ok)
  \/ \E w \in pendingSets, ok \in BOOLEAN : SetexReturn(w, ok)
  \/ \E t \in TaskIds, ok \in BOOLEAN : TtsReturn(t, ok)
  \/ \E t \in TaskIds, i \in 1..3, ok \in BOOLEAN : FragmentReturn(t, i, ok)

Spec == Init /\ [][Next]_vars

\* the same server with clients that follow one of the Scripts
SpecScript == InitScript /\ [][Next]_vars

\* Two clients: one runs a turn start -> chunk -> stop and sends a frame of
\* unknown type, the other sends a payload that is not JSON and a ping
ScriptTwoClients ==
  << <<2, "bad", "notJson">>,
     <<1, "start", "s1">>, <<1, "chunk", "x">>, <<2, "ping">>,
     <<1, "stop">>, <<1, "other">> >>

LiveScripts == {ScriptTwoClients, ScriptNoRestart}

InitLive ==
  /\ InitServer
  /\ script \in LiveScripts
  /\ nFaults = 0
  /\ arg = NoCall /\ ret = NoCall

\* a request made to a provider, to the store or to the file system settles
SomeCallSettles ==
  \/ \E t \in TaskIds : ReadStreamOpen(t)
  \/ \E t \in TaskIds, kind \in {"ok", "empty", "nonOK", "reject"} : WhisperReturn(t, kind)
  \/ \E t \in TaskIds, ok \in BOOLEAN, as \in RedisReplies : CacheGetReturn(t, ok, as)
  \/ \E t \in TaskIds, ok \in BOOLEAN : GptReturn(t, ok)
  \/ \E w \in pendingSets, ok \in BOOLEAN : SetexReturn(w, ok)
  \/ \E t \in TaskIds, ok \in BOOLEAN : TtsReturn(t, ok)
  \/ \E t \in TaskIds, i \in 1..3, ok \in BOOLEAN : FragmentReturn(t, i, ok)

\* Requests do not stay pending for ever: while one is pending, one of
\* them settles, it returns or it fails.  Nothing is asked of the clients.
CallsSettle == WF_vars(SomeCallSettles)

\* the server with scripted clients and calls that settle
SpecLive == InitLive /\ [][Next]_vars /\ CallsSettle

----------------------------------------------------------------------------
(* What a turn sent *)

\* the frames turn t has sent so far, in the order they were sent
FramesOf(t) == SelectSeq(outbox[tasks[t].conn], LAMBDA f : f.turn = t)
TypesOf(t) == [i \in 1..Len(FramesOf(t)) |-> FramesOf(t)[i].type]
FramesOfType(t, type) == SelectSeq(FramesOf(t), LAMBDA f : f.type = type)
Count(t, type) == Len(FramesOfType(t, type))
Done(t) == tasks[t].pc = "done"

----------------------------------------------------------------------------
(* C1 *)

\* C1: on one connection at most one turn pipeline is in flight: the handler
\* of a `stop` has run to completion, awaited adapter calls included, before
\* the handler of the next inbound frame starts
C1_OnePipelinePerConnection ==
  \A c \in Conns : Cardinality({t \in TasksOf(c) : Live(t)}) <= 1

----------------------------------------------------------------------------
(* C2 *)

\* no adapter call of turn t has failed, and its transcript is not empty
AdaptersOk(t) ==
  LET k == tasks[t]
  IN /\ k.rWhisper = "ok" /\ k.originalText \notin {<<>>, NoText}
     /\ k.rGet # "none" => k.readOk
     /\ k.rGpt # "fail" /\ k.rSet # "fail" /\ k.rTts # "fail"

\* the turn is a start -> chunk(s) -> stop
StartedTurn(t) == tasks[t].sid0 # NULL /\ tasks[t].nChunks >= 1

\* the types of the frames of a turn that went well
SuccessTypes(types) ==
  \/ types = <<"partial", "final", "audio", "end">>
  \/ \E n \in 0..Len(types) :
       types = <<"partial", "final">> \o [i \in 1..n |-> "audio_chunk"]
               \o <<"audio_complete", "end">>

\* a `connected` frame with the turn's sessionId precedes the turn's frames
ConnectedFirst(t) ==
  LET box == outbox[tasks[t].conn]
  IN \E i \in 1..Len(box) :
       /\ box[i].type = "connected" /\ box[i].sessionId = tasks[t].sid0
       /\ \A j \in 1..i : box[j].turn # t

\* C2: a turn start -> chunk(s) -> stop whose adapter calls all succeed and
\* whose transcript is non-empty sends connected, partial, final, then one
\* audio or N audio_chunk and audio_complete, then end as its last frame
C2_SuccessfulTurnFrames ==
  \A t \in TaskIds :
    Done(t) /\ AdaptersOk(t) /\ StartedTurn(t) =>
      SuccessTypes(TypesOf(t)) /\ ConnectedFirst(t)

----------------------------------------------------------------------------
(* C3 *)

\* turn t went down the chunked synthesis path and every fragment came back
ChunkedDone(t) ==
  Done(t) /\ tasks[t].frags # <<>> /\ tasks[t].rTts = "ok"

\* C3: in the chunked synthesis path, whatever the order in which the
\* concurrent fragment synthesis calls complete, the audio_chunk frames of a
\* turn are sent with chunkIndex 0, 1, ..., N-1 in increasing order, each
\* index once and with the audio of that fragment, and audio_complete
\* follows them
C3_ChunksInIndexOrder ==
  \A t \in TaskIds :
    LET fs == FramesOf(t)
        cs == FramesOfType(t, "audio_chunk")
        n == Len(cs)
    IN /\ ChunkedDone(t) => n = Len(tasks[t].frags)
       /\ n > 0 =>
            /\ n = Len(tasks[t].frags)
            /\ \A j \in 1..n : /\ cs[j].chunkIndex = j - 1
                                /\ cs[j].totalChunks = n
                                /\ cs[j].url = tasks[t].frags[j]
            /\ \E p \in 1..Len(fs) :
                 /\ p + n <= Len(fs)
                 /\ \A j \in 1..n : fs[p + j - 1] = cs[j]
                 /\ fs[p + n].type = "audio_complete"

\* a turn of three fragments whose last fragment was synthesized first
C3_Witness ==
  \E t \in TaskIds :
    /\ ChunkedDone(t) /\ Len(tasks[t].frags) = 3
    /\ tasks[t].doneOrder[1] = 3
    /\ Count(t, "audio_chunk") = 3

----------------------------------------------------------------------------
(* C4 *)

\* the transcription, translation or synthesis adapter failed during turn t
AdapterFailed(t) ==
  tasks[t].rWhisper = "fail" \/ tasks[t].rGpt = "fail" \/ tasks[t].rTts = "fail"

\* C4: a turn during which the transcription, translation or synthesis
\* adapter fails sends exactly one error frame and no end frame, and the
\* server leaves the connection open
C4_AdapterFailureOneError ==
  \A t \in TaskIds :
    Done(t) /\ AdapterFailed(t) =>
      /\ Count(t, "error") = 1
      /\ Count(t, "end") = 0
      /\ connOpen[tasks[t].conn]

----------------------------------------------------------------------------
(* C5 *)

\* C5: a `stop` that finds the audio buffer empty (no chunk since the
\* connection opened or since the last start) sends an error frame and goes
\* no further: no transcription call, no partial, final, audio or end frame
C5_EmptyStopIsError ==
  \A t \in TaskIds :
    tasks[t].nChunks = 0 =>
      /\ tasks[t].nWhisper = 0
      /\ TypesOf(t) = <<"error">>

----------------------------------------------------------------------------
(* C6 *)

\* the transcription response of turn t came back without a text ("" or
\* none at all) and the turn's audio file was still there to be removed
NoTranscript(t) ==
  /\ tasks[t].rWhisper # "none"
  /\ tasks[t].originalText \in {<<>>, NoText}
  /\ ~tasks[t].unlinkFailed
  /\ tasks[t].pc # "whisper"

\* C6: when the transcription adapter returns an empty or missing text the
\* turn sends error "No text transcribed from audio" and nothing else: no
\* partial, no final, no audio frame, and neither the cache nor the
\* translation adapter is called
C6_NoTranscriptIsError ==
  \A t \in TaskIds :
    NoTranscript(t) =>
      /\ TypesOf(t) = <<"error">>
      /\ FramesOf(t)[1].error = "No text transcribed from audio"
      /\ tasks[t].nGet = 0 /\ tasks[t].nGpt = 0

----------------------------------------------------------------------------
(* C7 *)

\* turn t has looked the cache up
LookedUp(t) == tasks[t].rGet # "none"

\* C7: when the cache holds an entry for the turn's key at lookup time (and
\* the store answers the read), the turn sends final with cached: true and
\* the cached value as `translated`, and never calls the translation adapter
C7_HitServedFromCache ==
  \A t \in TaskIds :
    LookedUp(t) /\ tasks[t].readOk /\ tasks[t].held =>
      /\ tasks[t].nGpt = 0
      /\ Count(t, "final") = 1
      /\ FramesOfType(t, "final")[1].cached
      /\ FramesOfType(t, "final")[1].translated = tasks[t].heldT

----------------------------------------------------------------------------
(* C8 *)

\* C8: with a store that answers and keeps its entries, a turn whose
\* transcript has no entry calls the translation adapter exactly once, and
\* every later turn with the same language pair and transcript is a cache
\* hit (final with cached: true, no translation call), also when it looks
\* the cache up while the first turn's cache write is still pending
C8_MissThenHit ==
  /\ \A t \in TaskIds :
       LookedUp(t) /\ tasks[t].readOk /\ ~tasks[t].held => tasks[t].nGpt = 1
  /\ \A t1, t2 \in TaskIds :
       /\ t1 < t2 /\ tasks[t1].key = tasks[t2].key
       /\ tasks[t1].rGpt = "ok" /\ tasks[t1].rSet # "fail"
       /\ t1 \in tasks[t2].before
       /\ LookedUp(t2) /\ tasks[t2].readOk
       => /\ tasks[t2].rGet = "hit" /\ tasks[t2].nGpt = 0
          /\ Count(t2, "final") = 1 /\ FramesOfType(t2, "final")[1].cached

----------------------------------------------------------------------------
(* C9 *)

\* C9: a failing cache never fails a turn.  If the cache read throws the
\* turn goes on as on a miss: the translation adapter is called and final
\* carries cached: false.  If the cache write throws the turn sends no
\* error frame and still sends its audio frames and end
C9_CacheFailureTolerated ==
  \A t \in TaskIds :
    /\ LookedUp(t) /\ ~tasks[t].readOk =>
         /\ tasks[t].rGet = "miss" /\ tasks[t].nGpt = 1
         /\ tasks[t].rGpt = "ok" =>
              /\ Count(t, "final") = 1
              /\ ~FramesOfType(t, "final")[1].cached
    /\ tasks[t].rSet = "fail" /\ tasks[t].rTts # "fail" =>
         /\ Count(t, "error") = 0
         /\ Done(t) => SuccessTypes(TypesOf(t))

\* a turn whose cache write threw and which has sent its audio and end
C9_Witness ==
  \E t \in TaskIds :
    /\ Done(t) /\ tasks[t].rSet = "fail"
    /\ Count(t, "end") = 1 /\ Count(t, "error") = 0

----------------------------------------------------------------------------
(* C10 *)

\* turn t is a start -> chunk(s) -> stop whose `start` was received after
\* an earlier turn on the same connection had finished
NewTurnAfterFinished(t) ==
  /\ StartedTurn(t)
  /\ \E u \in tasks[t].since0 : tasks[u].conn = tasks[t].conn

\* C10: after a turn has finished, with end or with error, the connection
\* takes a new start -> chunk(s) -> stop; the new turn transcribes exactly
\* the chunks received after the new start and, if its adapters succeed,
\* sends the full successful frame sequence
C10_UsableAfterTurn ==
  \A t \in TaskIds :
    NewTurnAfterFinished(t) =>
      /\ tasks[t].pc # "open" => tasks[t].audio = tasks[t].buffer
      /\ Done(t) /\ AdaptersOk(t) =>
           SuccessTypes(TypesOf(t)) /\ ConnectedFirst(t)

----------------------------------------------------------------------------
(* C11 *)

\* C11: a `start` received in any state, also while a pipeline is in
\* flight, empties the audio buffer, stores sessionId, fromLang and toLang
\* as the session's values and sends exactly one connected frame carrying
\* that sessionId
C11_StartResets ==
  [][\A c \in Conns, data \in Starts :
       HandleStart(c, data) =>
         /\ session'[c].audioChunks = <<>>
         /\ session'[c].sessionId = data.sessionId
         /\ session'[c].fromLang = data.fromLang
         /\ session'[c].toLang = data.toLang
         /\ outbox'[c] = Append(outbox[c], ConnectedFrame(data.sessionId))
         /\ \A o \in Conns \ {c} :
              session'[o] = session[o] /\ outbox'[o] = outbox[o]]_vars

\* a `start` has been handled while a turn that had buffered audio was
\* still in flight on the connection
C11_Witness ==
  \E t \in TaskIds :
    LET c == tasks[t].conn
        box == outbox[c]
    IN /\ Live(t) /\ tasks[t].nChunks >= 1
       /\ session[c].sessionId # NULL
       /\ session[c].sessionId # tasks[t].sid0
       /\ session[c].audioChunks = <<>>
       /\ box[Len(box)] = ConnectedFrame(session[c].sessionId)

----------------------------------------------------------------------------
(* C12 *)

\* C12: a `ping` received in any state, also while a turn pipeline awaits
\* an adapter, leaves sessionId, fromLang, toLang and the audio buffer as
\* they are and produces exactly one pong frame, at once
C12_PingAnswered ==
  [][\A c \in Conns :
       HandlePing(c) =>
         /\ session' = session
         /\ outbox'[c] = Append(outbox[c], PongFrame)]_vars

----------------------------------------------------------------------------
(* C13 *)

\* C13: a well-formed frame whose type is not start, chunk, stop or ping
\* leaves the whole session state as it is and produces no outbound frame
C13_UnknownTypeIgnored ==
  [][\A c \in Conns :
       HandleOther(c) =>
         /\ session' = session /\ outbox' = outbox /\ connOpen' = connOpen
         /\ tasks' = tasks /\ redis' = redis /\ files' = files]_vars

\* the frame of unknown type of the script has been received while the
\* turn of its connection was in flight
C13_Witness ==
  /\ script = << <<2, "stop">> >>
  /\ \E t \in TasksOf(1) : Live(t) /\ tasks[t].pc # "whisper"

----------------------------------------------------------------------------
(* C14 *)

\* C14: a malformed inbound frame (a payload that is not JSON, or JSON that
\* is not an object with a `type`) is ignored: the session state is
\* unchanged, no outbound frame is sent, the connection stays open
C14_MalformedIgnored ==
  [][\A c \in Conns, kind \in Malformed :
       HandleMalformed(c, kind) =>
         /\ session' = session /\ outbox' = outbox /\ connOpen' = connOpen]_vars

----------------------------------------------------------------------------
(* C15 *)

\* no other turn has written the path turn t wrote its audio to
OwnPath(t) ==
  \A u \in TaskIds \ {t} : tasks[u].tmpPath # tasks[t].tmpPath

\* C15: once a turn has finished, on the success path and on every error
\* path (transcription request failing, non-OK transcription response, any
\* later exception), the temporary audio file it wrote no longer exists
C15_TempFileRemoved ==
  \A t \in TaskIds :
    Done(t) /\ OwnPath(t) => tasks[t].tmpPath \notin DOMAIN files

----------------------------------------------------------------------------
(* C16 *)

\* turn t is the only turn of its connection
AloneOnConnection(t) ==
  \A u \in TaskIds \ {t} : tasks[u].conn # tasks[t].conn

\* turn t has not failed on its temporary file being gone
NoFileError(t) ==
  \A i \in 1..Len(FramesOf(t)) :
    FramesOf(t)[i].error \notin {"ENOENT", CatchMessage("fallback", "ENOENT")}

\* C16: turns that run at the same time on different connections share
\* nothing but the cache: a turn on one connection never makes a turn on
\* another fail or transcribe audio other than its own buffer, also when
\* both derive their temporary path from the same clock value
C16_ConnectionsIndependent ==
  \A t \in TaskIds :
    AloneOnConnection(t) =>
      /\ NoFileError(t)
      /\ tasks[t].pc # "open" => tasks[t].audio = tasks[t].buffer

----------------------------------------------------------------------------
(* C17 *)

\* C17: the cache key depends on (fromLang, toLang, normalized transcript)
\* only, never on the session or the connection: a translation that a turn
\* on one connection has cached is served as a cache hit to a turn on any
\* other connection with the same language pair and normalized transcript
C17_SharedAcrossConnections ==
  \A t1, t2 \in TaskIds :
    /\ tasks[t1].conn # tasks[t2].conn
    /\ LookedUp(t2) /\ tasks[t2].readOk
    /\ t1 \in tasks[t2].landed
    /\ tasks[t1].setKey = tasks[t2].key
    => /\ tasks[t2].rGet = "hit" /\ tasks[t2].nGpt = 0
       /\ Count(t2, "final") = 1 /\ FramesOfType(t2, "final")[1].cached


----------------------------------------------------------------------------
(* The key and expiry helpers called on their own *)

\* most words of a phrase
MaxWords == 7

Whitespace == {" ", "\t"}
Punctuation == {"!"}

\* n copies of a text one after the other
Repeat(text, n) ==
  [i \in 1..(n * Len(text)) |-> text[((i - 1) % Len(text)) + 1]]

\* n one-letter words with sep between them, after lead and before trail
Phrase(n, sep, lead, trail) ==
  LET run == Repeat(<<"a">> \o sep, n)
  IN lead \o (IF n = 0 THEN <<>> ELSE SubSeq(run, 1, Len(run) - Len(sep)))
          \o trail

Phrases ==
  { Phrase(n, sep, lead, trail) :
      n \in 0..MaxWords, sep \in {<<" ">>, <<" ", " ">>, <<"\t">>},
      lead \in {<<>>, <<" ">>}, trail \in {<<>>, <<" ">>} }

\* texts with capitals, punctuation, a digit, a capital sigma
CaseTexts ==
  { HejBang, <<"A", "1", "!">>, <<"A", "Sigma", " ", "h">>,
    <<"h", "finalsigma", "!">> }

\* texts around the length limit of the key: one whose letters pass it, one
\* that ends in a two-unit letter just inside it, one whose two-unit letter
\* lies across it
LongTexts ==
  { Repeat(HejBang, (KeyMaxLen \div 3) + 1),
    Repeat(<<"a">>, KeyMaxLen - 2) \o <<HighSurrogate, LowSurrogate>>,
    Repeat(<<"a">>, KeyMaxLen - 1) \o <<HighSurrogate, LowSurrogate>> }

\* most words of a text handed to the chunker
MaxChunkWords == 3

\* words of one, two and four letters
ChunkWords == { <<"a">>, <<"h", "e">>, Tack }

\* words with one space between each two
JoinWords(words) ==
  LET F[i \in 1..Len(words)] ==
        IF i = 1 THEN words[1] ELSE F[i - 1] \o <<" ">> \o words[i]
  IN IF words = <<>> THEN <<>> ELSE F[Len(words)]

ChunkTexts ==
  UNION { { JoinWords(ws) : ws \in [1..n -> ChunkWords] } :
          n \in 1..MaxChunkWords }

\* the maxChunkLength of a call: 30 is what the server passes
MaxLens == {1, 3, 5, TtsChunkLen}

Texts == Phrases \cup CaseTexts \cup LongTexts \cup ChunkTexts

\* a letter and its capital
CasePairs ==
  { <<"H", "h">>, <<"A", "a">>, <<"Sigma", "sigma">>,
    <<"Sigma", "finalsigma">> }

\* the other case of the letter at i
ToggleCase(text, i) ==
  [text EXCEPT ![i] =
     IF \E p \in CasePairs : p[1] = @
     THEN (CHOOSE p \in CasePairs : p[1] = @)[2]
     ELSE IF \E p \in CasePairs : p[2] = @
          THEN (CHOOSE p \in CasePairs : p[2] = @)[1]
          ELSE @]

InsertAt(text, i, unit) ==
  SubSeq(text, 1, i - 1) \o <<unit>> \o SubSeq(text, i, Len(text))
RemoveAt(text, i) ==
  SubSeq(text, 1, i - 1) \o SubSeq(text, i + 1, Len(text))

\* the places of a text where it is edited: its first three and its last
\* two code units
EditAt(text) == {i \in 1..Len(text) : i <= 3 \/ i >= Len(text) - 1}

\* the text itself and the texts one change of case, punctuation or
\* whitespace away from it; no unit goes between the halves of a pair
Edits(text) ==
  {text}
  \cup { ToggleCase(text, i) : i \in EditAt(text) }
  \cup { InsertAt(text, i, unit) :
           i \in {j \in EditAt(text) \cup {Len(text) + 1} :
                    ~(j > 1 /\ text[j - 1] = HighSurrogate)},
           unit \in Whitespace \cup Punctuation }
  \cup { RemoveAt(text, i) :
           i \in {j \in EditAt(text) :
                    text[j] \in Whitespace \cup Punctuation} }

Calls ==
  UNION { { [op |-> "call", text |-> t, other |-> e,
             from |-> l.fromLang, to |-> l.toLang] : e \in Edits(t) } :
          <<t, l>> \in Texts \X Starts }

InitPure ==
  /\ InitServer /\ script = Free /\ nFaults = 0
  /\ arg \in Calls
  /\ ret = NoCall

\* what a call of a helper leaves alone
ServerState ==
  <<variant, session, outbox, connOpen, tasks, redis, pendingSets, files,
    clock, nIn, nFaults, script>>

\* the expiry setCachedTranslation gives the entry of a text
TtlCall ==
  /\ ret = NoCall
  /\ ret' = [op |-> "ttl", out |-> <<CacheTtl(arg.text)>>]
  /\ UNCHANGED <<arg, ServerState>>

\* the keys getCachedTranslation and setCachedTranslation derive for a text
\* and for another one
KeyCall ==
  /\ ret = NoCall
  /\ ret' = [op |-> "key",
             out |-> <<CacheKey(arg.from, arg.to, arg.text),
                       CacheKey(arg.from, arg.to, arg.other)>>]
  /\ UNCHANGED <<arg, ServerState>>

\* the normalized text of a key, and the normalization of that
NormalizeCall ==
  /\ ret = NoCall
  /\ ret' = [op |-> "normalize",
             out |-> <<NormalizeText(arg.text),
                       NormalizeText(NormalizeText(arg.text))>>]
  /\ UNCHANGED <<arg, ServerState>>

\* the fragments splitTextIntoChunks returns for a text and a length
ChunkCall ==
  /\ ret = NoCall
  /\ \E maxLen \in MaxLens :
       ret' = [op |-> "chunks",
               out |-> <<maxLen, splitTextIntoChunks(arg.text, maxLen)>>]
  /\ UNCHANGED <<arg, ServerState>>

NextPure == TtlCall \/ KeyCall \/ NormalizeCall \/ ChunkCall

SpecPure == InitPure /\ [][NextPure]_vars

----------------------------------------------------------------------------
(* C18 *)

\* the words of a text: its runs of code units that are not whitespace
WordsOnWhitespace(text) ==
  Cardinality({ i \in 1..Len(text) :
                  /\ text[i] \notin Whitespace
                  /\ (i = 1 \/ text[i - 1] \in Whitespace) })

\* C18: the expiry chosen for the entry of a text is 86400 seconds when the
\* text has at most 5 words between whitespace and 3600 seconds otherwise,
\* whatever whitespace the text has and wherever it has it.
C18_TtlByWhitespaceWords ==
  ret.op = "ttl" =>
    ret.out[1] = IF WordsOnWhitespace(arg.text) <= TtlWordLimit
                 THEN ShortTtl ELSE LongTtl

----------------------------------------------------------------------------
(* C19 *)

\* a text without its whitespace and punctuation
Unspaced(text) ==
  SelectSeq(text, LAMBDA u : u \notin Whitespace \cup Punctuation)

\* two texts differ in letter case, punctuation and whitespace only
DifferOnlyInCasePunctuationWhitespace(t1, t2) ==
  LET s1 == Unspaced(t1)
      s2 == Unspaced(t2)
  IN /\ Len(s1) = Len(s2)
     /\ \A i \in 1..Len(s1) :
          \/ s1[i] = s2[i]
          \/ <<s1[i], s2[i]>> \in CasePairs
          \/ <<s2[i], s1[i]>> \in CasePairs

\* C19: two texts that differ only in letter case, punctuation or
\* whitespace have the same cache key for a language pair, and the
\* normalized text at the end of a key is at most 120 long.
C19_KeysEqualAndBounded ==
  ret.op = "key" =>
    /\ Len(ret.out[1][4]) <= KeyMaxLen
    /\ Len(ret.out[2][4]) <= KeyMaxLen
    /\ DifferOnlyInCasePunctuationWhitespace(arg.text, arg.other)
         => ret.out[1] = ret.out[2]

----------------------------------------------------------------------------
(* C20 *)

\* C20: normalizing a normalized text gives it back unchanged.
C20_NormalizeIdempotent ==
  ret.op = "normalize" => ret.out[2] = ret.out[1]

----------------------------------------------------------------------------
(* C21 *)

\* the words of a text as the chunker sees them: the pieces between spaces
\* that are not empty
WordsOf(text) == SelectSeq(SplitOnSpace(text), LAMBDA w : w # <<>>)

\* the words of the fragments, fragment after fragment
WordsOfAll(fragments) ==
  LET F[i \in 0..Len(fragments)] ==
        IF i = 0 THEN <<>> ELSE F[i - 1] \o WordsOf(fragments[i])
  IN F[Len(fragments)]

\* C21: a fragment the chunker returns is at most maxLen long unless it is a
\* single word longer than maxLen, and the words of the fragments are the
\* words of the text: none is split across two fragments.
C21_FragmentsBounded ==
  ret.op = "chunks" =>
    LET maxLen == ret.out[1]
        fragments == ret.out[2]
    IN /\ \A i \in 1..Len(fragments) :
            \/ Len(fragments[i]) <= maxLen
            \/ /\ SplitOnSpace(fragments[i]) = <<fragments[i]>>
               /\ Len(fragments[i]) > maxLen
       /\ WordsOfAll(fragments) = WordsOf(arg.text)

\* a word longer than maxLen is a fragment of its own next to a fragment of
\* two words that fills maxLen
C21_Witness ==
  /\ ret.op = "chunks"
  /\ \E i, j \in 1..Len(ret.out[2]) :
       /\ Len(ret.out[2][i]) > ret.out[1]
       /\ Len(ret.out[2][j]) = ret.out[1]
       /\ Len(SplitOnSpace(ret.out[2][j])) = 2

----------------------------------------------------------------------------
(* C22 *)

\* the words of a text are separated by single spaces: no piece between two
\* spaces, before the first or after the last one is empty
SingleSpaced(text) ==
  text = <<>> \/ \A i \in 1..Len(SplitOnSpace(text)) : SplitOnSpace(text)[i] # <<>>

\* C22: for a text whose words are separated by single spaces, the fragments
\* of the chunker joined in order with single spaces are the text.
C22_JoinReproducesText ==
  ret.op = "chunks" /\ SingleSpaced(arg.text) =>
    JoinWords(ret.out[2]) = arg.text

\* a text of three words cut in two fragments, one of them of two words
C22_Witness ==
  /\ ret.op = "chunks" /\ SingleSpaced(arg.text)
  /\ Len(SplitOnSpace(arg.text)) = 3
  /\ Len(ret.out[2]) = 2
  /\ \E i \in 1..2 : Len(SplitOnSpace(ret.out[2][i])) = 2
  /\ JoinWords(ret.out[2]) = arg.text

----------------------------------------------------------------------------
(* C23 *)

\* C23: the chunker returns at least one fragment for every text, the empty
\* text and the texts of spaces included.
C23_ChunkerNonEmpty ==
  ret.op = "chunks" => Len(ret.out[2]) >= 1

----------------------------------------------------------------------------
(* C24 *)

----------------------------------------------------------------------------
(* C25 *)

\* C25: in a chunked turn, with N the number of fragments the chunker makes
\* of the turn's translated text, every audio_chunk frame carries totalChunks
\* N, and when audio_complete is sent it carries N too and comes after
\* exactly N audio_chunk frames.
C25_TotalChunksAgree ==
  \A t \in TaskIds :
    LET fs == FramesOf(t)
        N == Len(splitTextIntoChunks(tasks[t].translated, TtsChunkLen))
    IN /\ \A p \in 1..Len(fs) :
            fs[p].type = "audio_chunk" => fs[p].totalChunks = N
       /\ \A p \in 1..Len(fs) :
            fs[p].type = "audio_complete" =>
              /\ fs[p].totalChunks = N
              /\ Cardinality({q \in 1..(p - 1) : fs[q].type = "audio_chunk"}) = N
              /\ \A q \in (p + 1)..Len(fs) : fs[q].type # "audio_chunk"

\* a turn of two fragments that sent both and audio_complete
C25_Witness ==
  \E t \in TaskIds :
    /\ Len(tasks[t].frags) = 2
    /\ Count(t, "audio_chunk") = 2 /\ Count(t, "audio_complete") = 1
    /\ FramesOfType(t, "audio_complete")[1].totalChunks = 2

----------------------------------------------------------------------------
(* C26 *)

\* the bytes of the payload of the fragments, in the order of the
\* fragments; what a data-URL prefix decodes to is left to C27
PayloadOf(chunks) ==
  Base64Decode(SelectSeq(JoinChunks(chunks), LAMBDA ch : ch # "P"))
WithoutJunk(bytes) == SelectSeq(bytes, LAMBDA b : b # "junk")

\* C26: a `chunk` frame, whatever the state of the session, appends its
\* fragment to the end of the buffer and sends nothing; the audio a `stop`
\* hands to transcription is the fragments of the buffer one after the
\* other, in the order their frames were received.
C26_ChunksAppendedInOrder ==
  [][/\ \A c \in Conns, audio \in AudioFragments :
          HandleChunk(c, audio) =>
            /\ session'[c].audioChunks = Append(session[c].audioChunks, audio)
            /\ outbox' = outbox
     /\ \A t \in 1..Len(tasks') :
          tasks'[t].pc # "open" =>
            WithoutJunk(tasks'[t].audio) = PayloadOf(tasks'[t].chunks)]_vars

----------------------------------------------------------------------------
(* C27 *)

\* C27: the bytes a `stop` decodes for transcription hold the decoded audio
\* only: every data-URL prefix the buffered fragments carry, on the first
\* fragment or on several, has been removed before decoding.
C27_PrefixesRemoved ==
  \A t \in TaskIds : \A i \in 1..Len(tasks[t].buffer) :
    tasks[t].buffer[i] # "junk"

----------------------------------------------------------------------------
(* C28 *)

\* C28: every `final` frame of a turn of a started session carries the
\* transcript, the translation and the language pair of the session, and
\* its `cached` is true exactly when the translation is the one the cache
\* lookup of the turn returned.
C28_FinalFrameFields ==
  \A t \in TaskIds :
    LET fs == FramesOfType(t, "final")
    IN tasks[t].from0 # NULL /\ tasks[t].to0 # NULL =>
         \A i \in 1..Len(fs) :
           /\ fs[i].original = tasks[t].originalText
           /\ fs[i].translated # NoText
           /\ fs[i].fromLang # NULL /\ fs[i].toLang # NULL
           /\ fs[i].cached <=> tasks[t].rGet = "hit"

----------------------------------------------------------------------------
(* C29 *)

\* how far the pipeline of a turn has come
PcRank(pc) ==
  CASE pc = "open" -> 0
    [] pc = "whisper" -> 1
    [] pc = "cacheGet" -> 2
    [] pc = "gpt" -> 3
    [] pc = "cacheSet" -> 4
    [] pc \in {"tts", "ttsChunks"} -> 5
    [] OTHER -> 6

\* C29: no adapter call is made again.  When the transcription, translation
\* or synthesis call of a turn settles, well or not, the turn leaves that
\* call behind and never comes back to it; a fragment's synthesis call
\* settles once; so a `stop` makes at most one transcription call, one
\* translation call and one synthesis call per fragment.
C29_NoRetry ==
  [][\A t \in TaskIds :
       /\ PcRank(tasks'[t].pc) >= PcRank(tasks[t].pc)
       /\ tasks'[t].nWhisper <= 1 /\ tasks'[t].nGpt <= 1
       /\ tasks'[t].nTts <=
            IF tasks'[t].pc = "ttsChunks" \/ tasks'[t].frags # <<>>
            THEN Len(tasks'[t].frags) ELSE 1
       /\ (\E kind \in {"ok", "empty", "nonOK", "reject"} : WhisperReturn(t, kind))
            => tasks'[t].pc # "whisper"
       /\ (\E ok \in BOOLEAN : GptReturn(t, ok)) => tasks'[t].pc # "gpt"
       /\ (\E ok \in BOOLEAN : TtsReturn(t, ok)) => tasks'[t].pc # "tts"
       /\ \A i \in 1..3 :
            (\E ok \in BOOLEAN : FragmentReturn(t, i, ok)) =>
              \/ tasks'[t].pc = "done"
              \/ i \notin tasks[t].fragDone /\ i \in tasks'[t].fragDone]_vars

\* a turn that made its one transcription and its one translation call and
\* ended when the translation call failed
C29_Witness ==
  \E t \in TaskIds :
    /\ Done(t) /\ tasks[t].rGpt = "fail"
    /\ tasks[t].nWhisper = 1 /\ tasks[t].nGpt = 1 /\ tasks[t].nTts = 0
    /\ Count(t, "error") = 1

----------------------------------------------------------------------------
(* C30 *)

----------------------------------------------------------------------------
(* C31 *)

\* turn t has sent its terminal frame
Terminated(t) == Count(t, "end") + Count(t, "error") >= 1

\* C31: when every call settles and the connection stays open, the turn of
\* every `stop` comes to send a terminal frame, `end` or `error`; the
\* terminal frame is the last frame of the turn, none is sent after it.
C31_TurnTerminates ==
  /\ \A t \in 1..MaxTasks :
       (Len(tasks) >= t) ~> (Len(tasks) >= t /\ Done(t) /\ Terminated(t))
  /\ [][/\ \A t \in TaskIds : Terminated(t) => FramesOf(t)' = FramesOf(t)
        /\ \A t \in 1..Len(tasks') :
             Terminated(t)' =>
               TypesOf(t)'[Len(TypesOf(t)')] \in {"end", "error"}]_vars

\* a turn closed by `end` and a turn closed by `error`, each with its
\* terminal frame last
C31_Witness ==
  \E t1, t2 \in TaskIds :
    /\ Done(t1) /\ TypesOf(t1)[Len(TypesOf(t1))] = "end"
    /\ Done(t2) /\ TypesOf(t2)[Len(TypesOf(t2))] = "error"
    /\ Count(t1, "error") = 0 /\ Count(t2, "end") = 0

----------------------------------------------------------------------------
(* C32 *)

\* C32: a turn sends at most one `end` and at most one `error`, and never
\* both, whichever path it takes.
C32_OneTerminalFrame ==
  \A t \in TaskIds : Count(t, "end") + Count(t, "error") <= 1

\* the fallback variant's inner catch has reported an exception thrown
\* inside its try after the transcription had succeeded
C32_Witness ==
  /\ variant = "fallback"
  /\ \E t \in TaskIds :
       /\ Done(t) /\ tasks[t].unlinkFailed /\ tasks[t].rWhisper = "ok"
       /\ Count(t, "error") = 1 /\ Count(t, "end") = 0

----------------------------------------------------------------------------
(* C33 *)

\* C33: a turn that began under a `start` uses the sessionId and the
\* language pair of that `start` throughout: for the language hint of the
\* transcription, the cache key, the languages given to translation, the
\* languages of `final` where it carries them, the voice and the sessionId
\* of `end`, whatever `start` arrives while the turn awaits a call.
C33_OneLanguagePairPerTurn ==
  \A t \in TaskIds :
    LET k == tasks[t]
        fs == FramesOf(t)
    IN k.sid0 # NULL =>
         /\ k.lang = k.from0
         /\ k.key # <<>> => k.key = CacheKey(k.from0, k.to0, k.originalText)
         /\ k.gptFrom \in {NULL, k.from0} /\ k.gptTo \in {NULL, k.to0}
         /\ k.voice \in {NULL, VoiceFor(k.to0)}
         /\ \A i \in 1..Len(fs) :
              /\ fs[i].type = "final" =>
                   fs[i].fromLang \in {NULL, k.from0} /\ fs[i].toLang \in {NULL, k.to0}
              /\ fs[i].type = "end" => fs[i].sessionId = k.sid0

----------------------------------------------------------------------------
(* C34 *)

\* where, among the frames sent on the connection of turn t, the frames of
\* its chunked synthesis are
SynthesisRun(t) ==
  LET box == outbox[tasks[t].conn]
  IN { p \in 1..Len(box) :
         /\ box[p].turn = t
         /\ box[p].type \in {"audio_chunk", "audio_complete", "end"} }

\* C34: in the chunked path the audio_chunk frames of a turn, its
\* audio_complete and its `end` follow one another on the connection with
\* no other frame between them, whatever is received and answered while the
\* synthesis of the turn is pending.
C34_SynthesisFramesContiguous ==
  \A t \in TaskIds :
    LET run == SynthesisRun(t)
    IN /\ \A p, q \in run : \A r \in p..q : r \in run
       /\ Count(t, "audio_complete") = 1 =>
            Cardinality(run) = Len(tasks[t].frags) + 2

\* a chunked turn of several fragments sent its synthesis frames after a
\* `pong` that was sent while its synthesis was pending
C34_Witness ==
  \E t \in TaskIds :
    LET box == outbox[tasks[t].conn]
    IN /\ Count(t, "audio_chunk") >= 2 /\ Count(t, "end") = 1
       /\ \E p, q \in 1..Len(box) :
            /\ p < q /\ q + 1 \in SynthesisRun(t)
            /\ box[p].turn = t /\ box[p].type = "final"
            /\ box[q].type = "pong"

----------------------------------------------------------------------------
(* C35 *)

=============================================================================
